---- MODULE Spec2Model ----
(***************************************************************************)
(* A model of scripts/fetch-publication-info.py: the identifier loader,    *)
(* the Scopus citation-count fetcher, the EFetch metadata fetcher and the  *)
(* report writer of main().                                                *)
(*                                                                         *)
(* A Python str is a sequence of one-character strings, so that rstrip,    *)
(* join and format are computed character by character.  A dict is a       *)
(* function whose domain is its key set.  None is the empty sequence where *)
(* an optional element or attribute is looked up.                          *)
(***************************************************************************)
EXTENDS Integers, Sequences, FiniteSets, TLC

VARIABLES
    pc,            \* position of main(): "config", "load", "scopus", "efetch",
                   \* "header", "rows", "done", "failed"; "idle" outside main()
    error,         \* the uncaught exception that ended the run, "" when none
    config,        \* the file at args.config: "ok", "missing_file", "no_scopus_key"
    input_file,    \* the lines of args.input as iteration yields them
    id_list,       \* main's id_list
    chunk_i,       \* fetch_scopus_info: index of the next chunk of chunked_list
    scopus_info,   \* dict pubmed id -> citedby-count
    scopus_db,     \* the Scopus service: which identifiers it has counts for
    efetch_info,   \* dict pubmed id -> <<title, journal_date, electronic_date, mesh_terms>>
    http_log,      \* the HTTP exchanges so far, in order
    output,        \* the lines written to args.output (or printed), in order
    shape,         \* SpecArticle: what the article element under parse holds
    article,       \* SpecArticle: the PubmedArticle element under parse
    apc,           \* SpecArticle: position in the loop body of fetch_efetch_info
    parsed         \* SpecArticle: the loop body's locals

vars == <<pc, error, config, input_file, id_list, chunk_i, scopus_info, scopus_db,
          efetch_info, http_log, output, shape, article, apc, parsed>>

mainVars == <<pc, error, config, input_file, id_list, chunk_i, scopus_info, scopus_db,
              efetch_info, http_log, output>>

articleVars == <<shape, article, apc, parsed>>

(***************************************************************************)
(* Bounds of the model.                                                    *)
(***************************************************************************)
MaxLines == 3       \* Spec: lines of the input file
MaxBatchLines == 1  \* SpecBatch: free lines at the head of the input file
MaxPadChunks == 2   \* SpecBatch: the file's tail holds up to this many full chunks
MaxGroups == 2      \* SpecArticle: MeshHeading elements of an article

(***************************************************************************)
(* Program constants.                                                      *)
(***************************************************************************)
ChunkSize == 50

(***************************************************************************)
(* Strings.                                                                *)
(***************************************************************************)
S_pmid == <<"p", "m", "i", "d">>
S_100 == <<"1", "0", "0">>
S_200 == <<"2", "0", "0">>
S_5 == <<"5">>
S_OR == <<" ", "O", "R", " ">>
S_PMID_open == <<"P", "M", "I", "D", "(">>
S_close == <<")">>
S_tab == <<"\t">>
S_nl == <<"\n">>

Whitespace == {" ", "\t", "\n", "\r"}

Digits == <<"0", "1", "2", "3", "4", "5", "6", "7", "8", "9">>

RECURSIVE Dec(_)
Dec(n) == IF n < 10 THEN <<Digits[n + 1]>>
          ELSE Dec(n \div 10) \o <<Digits[(n % 10) + 1]>>

Min(a, b) == IF a < b THEN a ELSE b

\* str.rstrip(): the string without its trailing whitespace
RECURSIVE rstrip(_)
rstrip(s) ==
    IF s = <<>> THEN <<>>
    ELSE IF s[Len(s)] \in Whitespace THEN rstrip(SubSeq(s, 1, Len(s) - 1))
    ELSE s

\* str.lstrip() and str.strip(), as the remote services trim a token
RECURSIVE lstrip(_)
lstrip(s) ==
    IF s = <<>> THEN <<>>
    ELSE IF Head(s) \in Whitespace THEN lstrip(Tail(s))
    ELSE s

strip(s) == lstrip(rstrip(s))

\* Concatenation is evaluated half by half, which keeps the evaluation shallow.
FirstHalf(s) == SubSeq(s, 1, Len(s) \div 2)
SecondHalf(s) == SubSeq(s, (Len(s) \div 2) + 1, Len(s))

\* sep.join(parts)
RECURSIVE join(_, _)
join(sep, parts) ==
    IF parts = <<>> THEN <<>>
    ELSE IF Len(parts) = 1 THEN parts[1]
    ELSE join(sep, FirstHalf(parts)) \o sep \o join(sep, SecondHalf(parts))

\* s[i:j] of a Python sequence
Slice(s, i, j) == SubSeq(s, i + 1, Min(j, Len(s)))

\* range(start, stop, step) as a sequence
RECURSIVE Range(_, _, _)
Range(start, stop, step) ==
    IF start >= stop THEN <<>>
    ELSE <<start>> \o Range(start + step, stop, step)

\* for k, v in pairs: d[k] = v, on a dict d: the last pair of a key wins
DictUpdate(d, pairs) ==
    LET keys == { pairs[i][1] : i \in 1..Len(pairs) }
        last(k) == CHOOSE i \in 1..Len(pairs) :
                      /\ pairs[i][1] = k
                      /\ \A j \in (i + 1)..Len(pairs) : pairs[j][1] # k
    IN  [k \in (DOMAIN d) \cup keys |->
            IF k \in keys THEN pairs[last(k)][2] ELSE d[k]]

\* the least element of a non-empty set of numbers
Least(S) == CHOOSE i \in S : \A j \in S : i <= j

EmptyDict == <<>>

(***************************************************************************)
(* The identifier loader, main() lines 31-40.                              *)
(***************************************************************************)
\* line 35: the test that skips a line
LoaderSkipsNoStrip(line) == line = S_pmid

LoaderSkips(line) == rstrip(line) = S_pmid

\* lines 32-38: the loop appends line.rstrip() for every line it does not skip
LoadIds(lines) ==
    LET kept == SelectSeq(lines, LAMBDA line : ~LoaderSkips(line))
    IN  [i \in 1..Len(kept) |-> rstrip(kept[i])]

(***************************************************************************)
(* The citation-count fetcher, fetch_scopus_info.                          *)
(***************************************************************************)
\* line 87: [id_list[i:i+50] for i in range(0, len(id_list), 50)]
chunked_list_overlap(ids) ==
    LET starts == Range(0, Len(ids), ChunkSize)
    IN  [k \in 1..Len(starts) |-> Slice(ids, starts[k], starts[k] + ChunkSize + 1)]

chunked_list(ids) ==
    LET starts == Range(0, Len(ids), ChunkSize)
    IN  [k \in 1..Len(starts) |-> Slice(ids, starts[k], starts[k] + ChunkSize)]

\* lines 99-101
BuildQuery(chunk) == S_PMID_open \o join(S_OR, chunk) \o S_close

\* The remote services know an identifier by its trimmed, numeric form.
IsNumeric(s) == s # <<>> /\ \A i \in 1..Len(s) : s[i] \in {Digits[d] : d \in 1..10}

ScopusDBs == {"all", "only100", "none"}

ScopusKnows(db, id) ==
    /\ IsNumeric(strip(id))
    /\ \/ db = "all"
       \/ db = "only100" /\ strip(id) = S_100

CountOf(id) == IF id = S_100 THEN S_5 ELSE <<id[Len(id)]>>

ScopusEntry(id) == [has_id |-> TRUE, id |-> strip(id), count |-> CountOf(strip(id))]

\* the "entry" list a well-formed answer to a chunk's query holds
ScopusEntries(db, chunk) ==
    LET known == SelectSeq(chunk, LAMBDA id : ScopusKnows(db, id))
    IN  [k \in 1..Len(known) |-> ScopusEntry(known[k])]

\* an entry with no "pubmed-id", as Scopus answers an empty result set
ErrorEntry == [has_id |-> FALSE, id |-> <<>>, count |-> <<>>]

ScopusResponse(status, is_json, has_sr, has_entry, entries) ==
    [status |-> status, is_json |-> is_json, has_sr |-> has_sr,
     has_entry |-> has_entry, entries |-> entries]

\* what the service may answer to one GET
ScopusResponses(db, chunk) ==
    { ScopusResponse(200, TRUE, TRUE, TRUE, ScopusEntries(db, chunk)),
      ScopusResponse(200, TRUE, TRUE, TRUE, <<ErrorEntry>>),
      ScopusResponse(200, TRUE, TRUE, FALSE, <<>>),
      ScopusResponse(401, TRUE, FALSE, FALSE, <<>>),
      ScopusResponse(502, FALSE, FALSE, FALSE, <<>>) }

\* lines 108-109: the loop over the results
RecordEntries(info, entries) ==
    IF \E i \in 1..Len(entries) : ~entries[i].has_id
    THEN [err |-> "KeyError", info |-> info]
    ELSE [err |-> "",
          info |-> DictUpdate(info, [i \in 1..Len(entries) |->
                                        <<entries[i].id, entries[i].count>>])]

\* lines 105-109: what one response does to scopus_info
ScopusHandle(info, resp) ==
    IF ~resp.is_json THEN [err |-> "ValueError", info |-> info]
    ELSE IF ~resp.has_sr \/ ~resp.has_entry THEN [err |-> "KeyError", info |-> info]
    ELSE RecordEntries(info, resp.entries)

LogEntry(svc, req, status, ok, entries) ==
    [svc |-> svc, req |-> req, status |-> status, ok |-> ok, entries |-> entries]

(***************************************************************************)
(* XML elements, as xml.etree.ElementTree holds them.                      *)
(***************************************************************************)
\* UI is the optional attribute: <<>> when absent, <<value>> when present
Elem(tag, text, ui, children) ==
    [tag |-> tag, text |-> text, UI |-> ui, children |-> children]

Node(tag, children) == Elem(tag, <<>>, <<>>, children)
Leaf(tag, text) == Elem(tag, text, <<>>, <<>>)

\* Element.findall(tag): the children with that tag, in document order
findall(e, tag) == SelectSeq(e.children, LAMBDA c : c.tag = tag)

\* Element.find(tag): the first such child, or None (<<>>)
find(e, tag) ==
    LET m == findall(e, tag) IN IF m = <<>> THEN <<>> ELSE <<m[1]>>

\* e.find(t1).find(t2)...: <<>> when a lookup on the way gave None
RECURSIVE FindPath(_, _)
FindPath(e, tags) ==
    IF tags = <<>> THEN <<e>>
    ELSE LET n == find(e, Head(tags))
         IN  IF n = <<>> THEN <<>> ELSE FindPath(n[1], Tail(tags))

\* e.find(t1)...find(tn).text: not ok when it raises AttributeError
TextAt(e, tags) ==
    LET n == FindPath(e, tags)
    IN  IF n = <<>> THEN [ok |-> FALSE, val |-> <<>>]
        ELSE [ok |-> TRUE, val |-> n[1].text]

(***************************************************************************)
(* The documents the metadata service returns.                             *)
(***************************************************************************)
T_title == <<"T", "I", "T", "L", "E">>
J_year == <<"2", "0", "2", "0">>
J_month == <<"J", "a", "n">>
J_day == <<"5">>
E_year == <<"2", "0", "1", "9">>
E_month == <<"1", "2">>
E_day == <<"3", "1">>
D001 == <<"D", "0", "0", "1">>
D002 == <<"D", "0", "0", "2">>
D003 == <<"D", "0", "0", "3">>
NoUI == <<>>

DateParts == {"Year", "Month", "Day"}

DateLeaves(parts, y, m, d) ==
    (IF "Year" \in parts THEN <<Leaf("Year", y)>> ELSE <<>>)
    \o (IF "Month" \in parts THEN <<Leaf("Month", m)>> ELSE <<>>)
    \o (IF "Day" \in parts THEN <<Leaf("Day", d)>> ELSE <<>>)

\* a MeshHeading whose children carry the group's UI attributes
MeshHeading(group) ==
    Node("MeshHeading",
         [j \in 1..Len(group) |->
            Elem("DescriptorName", <<>>,
                 IF group[j] = NoUI THEN <<>> ELSE <<group[j]>>, <<>>)])

\* a PubmedArticle for identifier id of the given shape:
\*   title: Journal has a Title; jlevel: 0 no JournalIssue, 1 no PubDate,
\*   2 a PubDate holding jparts; edate: an ArticleDate holding eparts;
\*   mesh: a MeshHeadingList holding the heading groups
MakeArticle(id, sh) ==
    LET pubdate == Node("PubDate", DateLeaves(sh.jparts, J_year, J_month, J_day))
        issue == Node("JournalIssue", IF sh.jlevel = 2 THEN <<pubdate>> ELSE <<>>)
        journal == Node("Journal",
                        (IF sh.title THEN <<Leaf("Title", T_title)>> ELSE <<>>)
                        \o (IF sh.jlevel >= 1 THEN <<issue>> ELSE <<>>))
        adate == Node("ArticleDate", DateLeaves(sh.eparts, E_year, E_month, E_day))
        art == Node("Article",
                    <<journal>> \o (IF sh.edate THEN <<adate>> ELSE <<>>))
        meshlist == Node("MeshHeadingList",
                         [k \in 1..Len(sh.groups) |-> MeshHeading(sh.groups[k])])
        medline == Node("MedlineCitation",
                        <<Leaf("PMID", id), art>>
                        \o (IF sh.mesh THEN <<meshlist>> ELSE <<>>))
    IN  Node("PubmedArticle", <<medline>>)

ArticleShape(title, jlevel, jparts, edate, eparts, mesh, groups) ==
    [title |-> title, jlevel |-> jlevel, jparts |-> jparts, edate |-> edate,
     eparts |-> eparts, mesh |-> mesh, groups |-> groups]

FullShape == ArticleShape(TRUE, 2, DateParts, TRUE, DateParts, TRUE,
                          << <<D001, D002>>, <<D003>> >>)

\* a record as PubMed often holds it: no Day, no electronic date, no headings
SparseShape == ArticleShape(TRUE, 2, {"Year", "Month"}, FALSE, {}, FALSE, <<>>)

(***************************************************************************)
(* The metadata fetcher, fetch_efetch_info.                                *)
(***************************************************************************)
\* lines 143-152 with a guard per field instead of one for the block
JournalDatePartial(art) ==
    LET base == <<"Journal", "JournalIssue", "PubDate">>
        year == TextAt(art, Append(base, "Year"))
        month == TextAt(art, Append(base, "Month"))
        day == TextAt(art, Append(base, "Day"))
    IN  IF ~year.ok /\ ~month.ok /\ ~day.ok THEN <<>>
        ELSE year.val \o <<" ">> \o month.val \o <<" ">> \o day.val

\* lines 143-152: "{0} {1} {2}".format(year, month, day), or "" on AttributeError
JournalDate(art) ==
    LET base == <<"Journal", "JournalIssue", "PubDate">>
        year == TextAt(art, Append(base, "Year"))
        month == TextAt(art, Append(base, "Month"))
        day == TextAt(art, Append(base, "Day"))
    IN  IF year.ok /\ month.ok /\ day.ok
        THEN year.val \o <<" ">> \o month.val \o <<" ">> \o day.val
        ELSE <<>>

\* lines 155-161: "{0}/{1}/{2}".format(year, month, day), or "" on AttributeError
ElectronicDate(art) ==
    LET year == TextAt(art, <<"ArticleDate", "Year">>)
        month == TextAt(art, <<"ArticleDate", "Month">>)
        day == TextAt(art, <<"ArticleDate", "Day">>)
    IN  IF year.ok /\ month.ok /\ day.ok
        THEN year.val \o <<"/">> \o month.val \o <<"/">> \o day.val
        ELSE <<>>

\* line 168: [child.get("UI") for child in headings]
MeshIds(heading) == [j \in 1..Len(heading.children) |-> heading.children[j].UI]

\* lines 169-171 with the two separators exchanged
MeshJoinSwapped(groups) ==
    join(<<";">>, [k \in 1..Len(groups) |->
                    join(<<"|">>, [j \in 1..Len(groups[k]) |-> groups[k][j][1]])])

\* lines 169-171: ";".join within a group, "|".join of the groups
MeshJoin(groups) ==
    join(<<"|">>, [k \in 1..Len(groups) |->
                    join(<<";">>, [j \in 1..Len(groups[k]) |-> groups[k][j][1]])])

\* lines 164-173: str.join raises TypeError, which nothing catches, on a None
MeshTerms(medline) ==
    LET list == find(medline, "MeshHeadingList")
    IN  IF list = <<>> THEN [err |-> "", val |-> <<>>]
        ELSE LET MeshHeadings == findall(list[1], "MeshHeading")
                 groups == [k \in 1..Len(MeshHeadings) |-> MeshIds(MeshHeadings[k])]
             IN  IF \E k \in 1..Len(groups) : \E j \in 1..Len(groups[k]) :
                        groups[k][j] = <<>>
                 THEN [err |-> "TypeError", val |-> <<>>]
                 ELSE [err |-> "", val |-> MeshJoin(groups)]

\* lines 136-139: medline, pubmed, article, title; any missing node is fatal
ArticleHead(a) ==
    LET medline == find(a, "MedlineCitation")
        pubmed == IF medline = <<>> THEN [ok |-> FALSE, val |-> <<>>]
                  ELSE TextAt(medline[1], <<"PMID">>)
        art == IF medline = <<>> THEN <<>> ELSE find(medline[1], "Article")
        title == IF art = <<>> THEN [ok |-> FALSE, val |-> <<>>]
                 ELSE TextAt(art[1], <<"Journal", "Title">>)
    IN  IF pubmed.ok /\ title.ok
        THEN [err |-> "", medline |-> medline[1], pubmed |-> pubmed.val,
              art |-> art[1], title |-> title.val]
        ELSE [err |-> "AttributeError", medline |-> Node("", <<>>), pubmed |-> <<>>,
              art |-> Node("", <<>>), title |-> <<>>]

\* lines 136-175: one iteration of the loop over the PubmedArticle elements
ParseArticle(a) ==
    LET h == ArticleHead(a)
    IN  IF h.err # "" THEN [err |-> h.err, pubmed |-> <<>>, rec |-> <<>>]
        ELSE LET mesh == MeshTerms(h.medline)
             IN  IF mesh.err # "" THEN [err |-> mesh.err, pubmed |-> <<>>, rec |-> <<>>]
                 ELSE [err |-> "", pubmed |-> h.pubmed,
                       rec |-> <<h.title, JournalDate(h.art), ElectronicDate(h.art),
                                 mesh.val>>]

\* lines 135-177: the loop; an exception loses the dict built so far
ParseArticles(info, articles) ==
    LET p == [i \in 1..Len(articles) |-> ParseArticle(articles[i])]
        raised == { i \in 1..Len(articles) : p[i].err # "" }
    IN  IF raised # {} THEN [err |-> p[Least(raised)].err, info |-> EmptyDict]
        ELSE [err |-> "",
              info |-> DictUpdate(info, [i \in 1..Len(articles) |->
                                            <<p[i].pubmed, p[i].rec>>])]

\* lines 132-177 on a response: ET.fromstring raises ParseError on a non-XML body
EfetchHandle(resp) ==
    IF ~resp.is_xml THEN [err |-> "ParseError", info |-> EmptyDict]
    ELSE ParseArticles(EmptyDict, findall(resp.root, "PubmedArticle"))

PubmedDBs == {"all", "not200"}

PubmedKnows(db, id) ==
    /\ IsNumeric(strip(id))
    /\ db = "not200" => strip(id) # S_200

ShapeOf(id) == IF id = S_200 THEN SparseShape ELSE FullShape

\* the first occurrences of a sequence's elements, in order
Distinct(s) ==
    LET firsts == SelectSeq([i \in 1..Len(s) |-> i],
                            LAMBDA i : \A j \in 1..(i - 1) : s[j] # s[i])
    IN  [k \in 1..Len(firsts) |-> s[firsts[k]]]

\* the PubmedArticleSet answering a request for ids
PubmedArticles(db, ids) ==
    LET known == SelectSeq(ids, LAMBDA id : PubmedKnows(db, id))
        pmids == Distinct([k \in 1..Len(known) |-> strip(known[k])])
    IN  [k \in 1..Len(pmids) |-> MakeArticle(pmids[k], ShapeOf(pmids[k]))]

EfetchResponse(status, is_xml, root) ==
    [status |-> status, is_xml |-> is_xml, root |-> root]

NoTitleArticle == MakeArticle(<<"9">>, [FullShape EXCEPT !.title = FALSE])

\* what the service may answer to the POST: the article set; the set with a
\* record that has no journal title; an error document; a body that is not XML
EfetchResponses(db, ids) ==
    { EfetchResponse(200, TRUE, Node("PubmedArticleSet", PubmedArticles(db, ids))),
      EfetchResponse(200, TRUE, Node("PubmedArticleSet",
                     Append(PubmedArticles(db, ids), NoTitleArticle))),
      EfetchResponse(400, TRUE, Node("eFetchResult", <<Leaf("ERROR", <<>>)>>)),
      EfetchResponse(429, FALSE, Node("", <<>>)) }

(***************************************************************************)
(* The report writer, main() lines 46-68.                                  *)
(***************************************************************************)
headers == << <<"P", "M", "I", "D">>, <<"J", "o", "u", "r", "n", "a", "l", " ", "N", "a", "m", "e">>, <<"J", "o", "u", "r", "n", "a", "l", " ", "P", "u", "b", " ", "D", "a", "t", "e">>, <<"E", "l", "e", "c", "t", "r", "o", "n", "i", "c", " ", "D", "a", "t", "e">>,
              <<"C", "i", "t", "a", "t", "i", "o", "n", "s">>, <<"P", "u", "b", "l", "i", "s", "h", "e", "r">>, <<"F", "u", "n", "d", "i", "n", "g", " ", "S", "u", "p", "p", "o", "r", "t">>, <<"S", "t", "u", "d", "y", " ", "T", "y", "p", "e">>,
              <<"M", "e", "S", "H", " ", "T", "e", "r", "m", "s">> >>

header == join(S_tab, headers)

\* lines 60-64
RowLine(pubmed_id, einfo, sinfo) ==
    join(S_tab, <<pubmed_id, einfo[pubmed_id][1], einfo[pubmed_id][2],
                  einfo[pubmed_id][3], sinfo[pubmed_id], <<>>, <<>>, <<>>,
                  einfo[pubmed_id][4]>>)

\* lines 56-68: the loop; efetch_info[pubmed_id] raises KeyError on a missing key.
\* the loop over the distinct identifiers instead of over the list
WriteLoopDistinct(ids, sinfo, einfo, out) ==
    LET dids == Distinct(ids)
        missing == { i \in 1..Len(dids) : dids[i] \notin DOMAIN einfo }
        stop == IF missing = {} THEN Len(dids) + 1 ELSE Least(missing)
        started == { dids[i] : i \in 1..Min(stop, Len(dids)) }
        s1 == [k \in (DOMAIN sinfo) \cup started |->
                  IF k \in DOMAIN sinfo THEN sinfo[k] ELSE <<>>]
    IN  [err |-> IF missing = {} THEN "" ELSE "KeyError",
         scopus_info |-> s1,
         output |-> out \o [i \in 1..(stop - 1) |-> RowLine(dids[i], einfo, s1)]]

\* the loop with a citation count that defaults to "0"
WriteLoopZero(ids, sinfo, einfo, out) ==
    LET missing == { i \in 1..Len(ids) : ids[i] \notin DOMAIN einfo }
        stop == IF missing = {} THEN Len(ids) + 1 ELSE Least(missing)
        started == { ids[i] : i \in 1..Min(stop, Len(ids)) }
        s1 == [k \in (DOMAIN sinfo) \cup started |->
                  IF k \in DOMAIN sinfo THEN sinfo[k] ELSE <<"0">>]
    IN  [err |-> IF missing = {} THEN "" ELSE "KeyError",
         scopus_info |-> s1,
         output |-> out \o [i \in 1..(stop - 1) |-> RowLine(ids[i], einfo, s1)]]

\* the loop skipping an identifier efetch_info lacks instead of raising
WriteLoopSkip(ids, sinfo, einfo, out) ==
    LET present == SelectSeq(ids, LAMBDA id : id \in DOMAIN einfo)
        s1 == [k \in (DOMAIN sinfo) \cup { ids[i] : i \in 1..Len(ids) } |->
                  IF k \in DOMAIN sinfo THEN sinfo[k] ELSE <<>>]
    IN  [err |-> "",
         scopus_info |-> s1,
         output |-> out \o [i \in 1..Len(present) |-> RowLine(present[i], einfo, s1)]]

\* The loop stops at the first identifier efetch_info lacks; every iteration
\* that started has run lines 57-58, which default the citation count to "".
WriteLoop(ids, sinfo, einfo, out) ==
    LET missing == { i \in 1..Len(ids) : ids[i] \notin DOMAIN einfo }
        stop == IF missing = {} THEN Len(ids) + 1 ELSE Least(missing)
        started == { ids[i] : i \in 1..Min(stop, Len(ids)) }
        s1 == [k \in (DOMAIN sinfo) \cup started |->
                  IF k \in DOMAIN sinfo THEN sinfo[k] ELSE <<>>]
    IN  [err |-> IF missing = {} THEN "" ELSE "KeyError",
         scopus_info |-> s1,
         output |-> out \o [i \in 1..(stop - 1) |-> RowLine(ids[i], einfo, s1)]]

(***************************************************************************)
(* The inputs of a run.                                                    *)
(***************************************************************************)
\* the lines the head of an input file is made of, without their line end
LineContents ==
    { S_pmid, S_pmid \o <<" ">>, <<>>, S_100, S_200, <<" ">> \o S_100 }

Contents(max) == UNION { [1..n -> LineContents] : n \in 0..max }

\* the file's tail: a run of distinct numeric identifiers, up to the chunk
\* boundaries
PadSizes ==
    {0} \cup { k * ChunkSize - 1 : k \in 1..MaxPadChunks }
        \cup { k * ChunkSize : k \in 1..MaxPadChunks }

PadId(i) == Dec(1000 + i)

\* the lines as iterating the file yields them: each with its line end, the
\* last one without it when the file does not end in a line end
FileLines(prefix, pad, eof_nl) ==
    LET contents == prefix \o [i \in 1..pad |-> PadId(i)]
        n == Len(contents)
    IN  [i \in 1..n |->
            IF i = n /\ ~eof_nl THEN contents[i] ELSE contents[i] \o S_nl]

ConfigStates == {"ok", "missing_file", "no_scopus_key"}

IdleArticle ==
    /\ shape = FullShape
    /\ article = Node("", <<>>)
    /\ apc = "idle"
    /\ parsed = <<>>

InitRun ==
    /\ error = ""
    /\ id_list = <<>>
    /\ chunk_i = 1
    /\ scopus_info = EmptyDict
    /\ scopus_db = "unset"
    /\ efetch_info = EmptyDict
    /\ http_log = <<>>
    /\ output = <<>>
    /\ IdleArticle

\* a run of main() on a short input file
Init ==
    /\ pc = "config"
    /\ config \in ConfigStates
    /\ \E prefix \in Contents(MaxLines), eof_nl \in BOOLEAN :
          /\ ~eof_nl => prefix # <<>> /\ prefix[Len(prefix)] # <<>>
          /\ input_file = FileLines(prefix, 0, eof_nl)
    /\ InitRun

\* a run of main() from line 31 on a long input file, the configuration read
InitBatch ==
    /\ pc = "load"
    /\ config = "ok"
    /\ \E prefix \in Contents(MaxBatchLines), pad \in PadSizes :
          input_file = FileLines(prefix, pad, TRUE)
    /\ InitRun

(***************************************************************************)
(* main().                                                                 *)
(***************************************************************************)
Fail(exc) ==
    /\ pc' = "failed"
    /\ error' = exc

\* lines 26-28 after a metadata request was already sent
LoadConfigLate ==
    /\ pc = "config"
    /\ IF config = "ok"
       THEN /\ pc' = "load"
            /\ UNCHANGED <<error, http_log>>
       ELSE /\ Fail(IF config = "missing_file" THEN "FileNotFoundError" ELSE "KeyError")
            /\ http_log' = Append(http_log, LogEntry("efetch", <<>>, 200, TRUE, <<>>))
    /\ UNCHANGED <<config, input_file, id_list, chunk_i, scopus_info, scopus_db,
                   efetch_info, output, articleVars>>

\* lines 26-28: json.load(open(args.config)) and credentials['scopus']
LoadConfig ==
    /\ pc = "config"
    /\ IF config = "ok"
       THEN /\ pc' = "load"
            /\ UNCHANGED error
       ELSE Fail(IF config = "missing_file" THEN "FileNotFoundError" ELSE "KeyError")
    /\ UNCHANGED <<config, input_file, id_list, chunk_i, scopus_info, scopus_db,
                   efetch_info, http_log, output, articleVars>>

\* lines 31-40
LoadInput ==
    /\ pc = "load"
    /\ id_list' = LoadIds(input_file)
    /\ pc' = "scopus"
    /\ UNCHANGED <<error, config, input_file, chunk_i, scopus_info, scopus_db,
                   efetch_info, http_log, output, articleVars>>

\* lines 98-109: one iteration of the loop over the chunks, one GET
ScopusRequest ==
    /\ pc = "scopus"
    /\ chunk_i <= Len(chunked_list(id_list))
    /\ LET chunk == chunked_list(id_list)[chunk_i]
           query == BuildQuery(chunk)
       IN  \E db \in (IF scopus_db = "unset" THEN ScopusDBs ELSE {scopus_db}) :
           \E resp \in ScopusResponses(db, chunk) :
              LET h == ScopusHandle(scopus_info, resp)
              IN  /\ http_log' = Append(http_log,
                        LogEntry("scopus", query, resp.status, h.err = "", resp.entries))
                  /\ IF h.err = ""
                     THEN /\ scopus_info' = h.info
                          /\ scopus_db' = db
                          /\ chunk_i' = chunk_i + 1
                          /\ UNCHANGED <<pc, error>>
                     ELSE /\ Fail(h.err)
                          /\ scopus_info' = EmptyDict
                          /\ UNCHANGED <<scopus_db, chunk_i>>
    /\ UNCHANGED <<config, input_file, id_list, efetch_info, output, articleVars>>

\* line 111, and line 42 binding the result
ScopusReturn ==
    /\ pc = "scopus"
    /\ chunk_i > Len(chunked_list(id_list))
    /\ pc' = "efetch"
    /\ UNCHANGED <<error, config, input_file, id_list, chunk_i, scopus_info,
                   scopus_db, efetch_info, http_log, output, articleVars>>

\* line 43: fetch_efetch_info(id_list), one POST for all identifiers
FetchEfetch ==
    /\ pc = "efetch"
    /\ \E db \in PubmedDBs : \E resp \in EfetchResponses(db, id_list) :
          LET h == EfetchHandle(resp)
          IN  /\ http_log' = Append(http_log,
                    LogEntry("efetch", <<>>, resp.status, h.err = "", <<>>))
              /\ IF h.err = ""
                 THEN /\ efetch_info' = h.info
                      /\ pc' = "header"
                      /\ UNCHANGED error
                 ELSE /\ Fail(h.err)
                      /\ UNCHANGED efetch_info
    /\ UNCHANGED <<config, input_file, id_list, chunk_i, scopus_info, scopus_db,
                   output, articleVars>>

\* lines 46-54
WriteHeader ==
    /\ pc = "header"
    /\ output' = Append(output, header)
    /\ pc' = "rows"
    /\ UNCHANGED <<error, config, input_file, id_list, chunk_i, scopus_info,
                   scopus_db, efetch_info, http_log, articleVars>>

\* lines 56-70
WriteRows ==
    /\ pc = "rows"
    /\ LET r == WriteLoop(id_list, scopus_info, efetch_info, output)
       IN  /\ output' = r.output
           /\ scopus_info' = r.scopus_info
           /\ IF r.err = "" THEN pc' = "done" /\ UNCHANGED error ELSE Fail(r.err)
    /\ UNCHANGED <<config, input_file, id_list, chunk_i, scopus_db, efetch_info,
                   http_log, articleVars>>

Next ==
    \/ LoadConfig
    \/ LoadInput
    \/ ScopusRequest
    \/ ScopusReturn
    \/ FetchEfetch
    \/ WriteHeader
    \/ WriteRows

Spec == Init /\ [][Next]_vars

\* the loader and the citation-count fetcher on long identifier lists
NextBatch ==
    \/ LoadInput
    \/ ScopusRequest
    \/ ScopusReturn

SpecBatch == InitBatch /\ [][NextBatch]_vars

(***************************************************************************)
(* The loop body of fetch_efetch_info, lines 136-175, on one article.      *)
(***************************************************************************)
\* the children a MeshHeading may hold, by their UI attributes
GroupSet == { <<>>, <<D001, D002>>, <<D003>>, <<NoUI>> }

MeshShapes ==
    { <<FALSE, <<>>>> }
    \cup { <<TRUE, g>> : g \in UNION { [1..n -> GroupSet] : n \in 0..MaxGroups } }

JournalShapes ==
    { <<0, {}>>, <<1, {}>> } \cup { <<2, p>> : p \in SUBSET DateParts }

ElectronicShapes == { <<FALSE, {}>> } \cup { <<TRUE, p>> : p \in SUBSET DateParts }

ArticleShapes ==
    { ArticleShape(t, j[1], j[2], e[1], e[2], m[1], m[2]) :
        t \in BOOLEAN, j \in JournalShapes, e \in ElectronicShapes, m \in MeshShapes }

NoLocals ==
    [medline |-> Node("", <<>>), pubmed |-> <<>>, art |-> Node("", <<>>),
     title |-> <<>>, journal_date |-> <<>>, electronic_date |-> <<>>,
     mesh_terms |-> <<>>]

InitArticle ==
    /\ pc = "idle"
    /\ config = "ok"
    /\ input_file = <<>>
    /\ error = ""
    /\ id_list = <<>>
    /\ chunk_i = 1
    /\ scopus_info = EmptyDict
    /\ scopus_db = "unset"
    /\ efetch_info = EmptyDict
    /\ http_log = <<>>
    /\ output = <<>>
    /\ shape \in ArticleShapes
    /\ article = MakeArticle(S_100, shape)
    /\ apc = "head"
    /\ parsed = NoLocals

\* lines 136-139
ParseHead ==
    /\ apc = "head"
    /\ LET h == ArticleHead(article)
       IN  IF h.err # ""
           THEN /\ apc' = "raised"
                /\ error' = h.err
                /\ UNCHANGED parsed
           ELSE /\ apc' = "jdate"
                /\ parsed' = [parsed EXCEPT !.medline = h.medline, !.pubmed = h.pubmed,
                                            !.art = h.art, !.title = h.title]
                /\ UNCHANGED error
    /\ UNCHANGED <<pc, config, input_file, id_list, chunk_i, scopus_info, scopus_db,
                   efetch_info, http_log, output, shape, article>>

\* lines 143-152
ParseJournalDate ==
    /\ apc = "jdate"
    /\ parsed' = [parsed EXCEPT !.journal_date = JournalDate(parsed.art)]
    /\ apc' = "edate"
    /\ UNCHANGED <<mainVars, shape, article>>

\* lines 155-161
ParseElectronicDate ==
    /\ apc = "edate"
    /\ parsed' = [parsed EXCEPT !.electronic_date = ElectronicDate(parsed.art)]
    /\ apc' = "mesh"
    /\ UNCHANGED <<mainVars, shape, article>>

\* lines 164-173
ParseMesh ==
    /\ apc = "mesh"
    /\ LET m == MeshTerms(parsed.medline)
       IN  IF m.err # ""
           THEN /\ apc' = "raised"
                /\ error' = m.err
                /\ UNCHANGED parsed
           ELSE /\ apc' = "store"
                /\ parsed' = [parsed EXCEPT !.mesh_terms = m.val]
                /\ UNCHANGED error
    /\ UNCHANGED <<pc, config, input_file, id_list, chunk_i, scopus_info, scopus_db,
                   efetch_info, http_log, output, shape, article>>

\* line 175
StoreRecord ==
    /\ apc = "store"
    /\ efetch_info' = DictUpdate(efetch_info,
           << <<parsed.pubmed, <<parsed.title, parsed.journal_date,
                                 parsed.electronic_date, parsed.mesh_terms>> >> >>)
    /\ apc' = "stored"
    /\ UNCHANGED <<pc, error, config, input_file, id_list, chunk_i, scopus_info,
                   scopus_db, http_log, output, shape, article, parsed>>

NextArticle ==
    \/ ParseHead
    \/ ParseJournalDate
    \/ ParseElectronicDate
    \/ ParseMesh
    \/ StoreRecord

SpecArticle == InitArticle /\ [][NextArticle]_vars

(***************************************************************************)
(* Reading a report line, a query string and a MeSH field back.            *)
(***************************************************************************)
\* the places where sep occurs in s
Occurrences(s, sep) ==
    SelectSeq([i \in 1..Len(s) |-> i],
              LAMBDA i : i + Len(sep) - 1 <= Len(s)
                         /\ SubSeq(s, i, i + Len(sep) - 1) = sep)

\* s cut at every occurrence of sep (the separators used never overlap)
SplitAt(s, sep) ==
    LET at == Occurrences(s, sep)
        n == Len(at)
    IN  [k \in 1..(n + 1) |->
            SubSeq(s, IF k = 1 THEN 1 ELSE at[k - 1] + Len(sep),
                      IF k = n + 1 THEN Len(s) ELSE at[k] - 1)]

Fields(line) == SplitAt(line, S_tab)

\* the identifiers a query string names, when it has the form PMID(...)
QueryIds(q) == SplitAt(SubSeq(q, Len(S_PMID_open) + 1, Len(q) - 1), S_OR)

WellFormedQuery(q) ==
    /\ Len(q) >= Len(S_PMID_open) + 1
    /\ SubSeq(q, 1, Len(S_PMID_open)) = S_PMID_open
    /\ q[Len(q)] = ")"

\* the heading groups a MeSH field names
MeshGroups(field) ==
    LET gs == SplitAt(field, <<"|">>)
    IN  [k \in 1..Len(gs) |-> IF gs[k] = <<>> THEN <<>> ELSE SplitAt(gs[k], <<";">>)]

ScopusLog == SelectSeq(http_log, LAMBDA r : r.svc = "scopus")

\* the citation-count entries the service has returned for identifier id
CountsFor(id) ==
    { <<k, j>> \in (1..Len(ScopusLog)) \X (1..ChunkSize) :
         /\ ScopusLog[k].ok
         /\ j <= Len(ScopusLog[k].entries)
         /\ ScopusLog[k].entries[j].id = id }

\* the entry returned last
LastCount(id) ==
    LET c == CHOOSE c \in CountsFor(id) :
                \A d \in CountsFor(id) : d[1] < c[1] \/ (d[1] = c[1] /\ d[2] <= c[2])
    IN  ScopusLog[c[1]].entries[c[2]].count

\* the loader has run
Loaded ==
    \/ pc \in {"scopus", "efetch", "header", "rows", "done"}
    \/ pc = "failed" /\ config = "ok"
WriterRan == pc \in {"done", "failed"} /\ output # <<>>
MissingMetadata == { i \in 1..Len(id_list) : id_list[i] \notin DOMAIN efetch_info }

(***************************************************************************)
(* Properties.                                                             *)
(***************************************************************************)
\* C1: a run of main() that completes has written one data row per loaded
\* identifier, duplicates included, and the i-th data row starts with the i-th
\* loaded identifier; at every moment the data rows written so far are those of
\* the first identifiers, in input order.
C1_RowsMatchIdentifiers ==
    /\ Len(output) <= Len(id_list) + 1
    /\ \A i \in 1..(Len(output) - 1) : Fields(output[i + 1])[1] = id_list[i]
    /\ pc = "done" => Len(output) = Len(id_list) + 1

C1_Witness ==
    /\ pc = "done"
    /\ Len(id_list) = 3
    /\ id_list[1] = id_list[3]
    /\ id_list[1] # id_list[2]
    /\ Len(output) = 4

\* C2: the k-th citation-count request is the query of the k-th contiguous
\* chunk of at most 50 identifiers, "PMID(" + ids joined by " OR " + ")", and
\* when fetch_scopus_info returns it has issued ceil(N/50) requests.
C2_Batching ==
    LET n == Len(id_list)
        issued == Len(ScopusLog)
    IN  /\ issued <= (n + ChunkSize - 1) \div ChunkSize
        /\ \A k \in 1..issued :
              /\ WellFormedQuery(ScopusLog[k].req)
              /\ QueryIds(ScopusLog[k].req)
                    = SubSeq(id_list, (k - 1) * ChunkSize + 1, Min(k * ChunkSize, n))
        /\ pc = "efetch" => issued = (n + ChunkSize - 1) \div ChunkSize

C2_Witness ==
    /\ pc = "efetch"
    /\ Len(id_list) = 2 * ChunkSize
    /\ Len(ScopusLog) = 2
    /\ Len(QueryIds(ScopusLog[2].req)) = ChunkSize

\* C3: no loaded identifier is "pmid", wherever the header line stands in the
\* file, and the loaded identifiers are the other lines, right-trimmed, in the
\* order of the file.
C3_HeaderNeverLoaded ==
    Loaded =>
       /\ \A i \in 1..Len(id_list) : id_list[i] # S_pmid
       /\ LET others == SelectSeq(input_file, LAMBDA l : rstrip(l) # S_pmid)
          IN  id_list = [i \in 1..Len(others) |-> rstrip(others[i])]

C3_Witness ==
    /\ Loaded
    /\ Len(input_file) = 3
    /\ input_file[2] = S_pmid \o S_nl
    /\ id_list = <<S_100, S_200>>

\* C4 (as claimed): every loaded identifier is non-empty and has no leading or
\* trailing whitespace.
C4_TrimmedNonEmpty ==
    Loaded =>
       \A i \in 1..Len(id_list) :
          /\ id_list[i] # <<>>
          /\ Head(id_list[i]) \notin Whitespace
          /\ id_list[i][Len(id_list[i])] \notin Whitespace

\* C5: the Citations column of a data row is the citedby-count the service
\* returned for the row's identifier, and the empty string when it returned
\* none.
C5_CitationsColumn ==
    \A i \in 1..(Len(output) - 1) :
       /\ Len(Fields(output[i + 1])) = 9
       /\ Fields(output[i + 1])[5]
             = IF CountsFor(id_list[i]) = {} THEN <<>> ELSE LastCount(id_list[i])

C5_Witness ==
    /\ pc = "done"
    /\ input_file = <<S_pmid \o S_nl, S_100 \o S_nl, S_200>>
    /\ Len(output) = 3
    /\ Fields(output[2])[1] = S_100
    /\ Fields(output[2])[5] = S_5
    /\ Fields(output[3])[1] = S_200
    /\ Fields(output[3])[5] = <<>>

\* C6: the journal date of a parsed article is "Year Month Day" when the
\* PubDate holds all three nodes and the empty string otherwise, the
\* electronic date likewise "Year/Month/Day" or empty from ArticleDate alone,
\* and a missing date node never makes the parse raise.
JournalDateComplete == shape.jlevel = 2 /\ shape.jparts = DateParts
ElectronicDateComplete == shape.edate /\ shape.eparts = DateParts
ShapeHasNoUI ==
    shape.mesh /\ \E k \in 1..Len(shape.groups) :
                     \E j \in 1..Len(shape.groups[k]) : shape.groups[k][j] = NoUI

C6_DatesAllOrNothing ==
    /\ apc \in {"edate", "mesh", "store", "stored"} =>
          parsed.journal_date
             = IF JournalDateComplete THEN <<"2", "0", "2", "0", " ", "J", "a", "n", " ", "5">> ELSE <<>>
    /\ apc \in {"mesh", "store", "stored"} =>
          parsed.electronic_date
             = IF ElectronicDateComplete THEN <<"2", "0", "1", "9", "/", "1", "2", "/", "3", "1">> ELSE <<>>
    /\ apc = "raised" => ~shape.title \/ ShapeHasNoUI
    /\ apc = "stored" =>
          /\ efetch_info[S_100][2] = parsed.journal_date
          /\ efetch_info[S_100][3] = parsed.electronic_date

C6_Witness ==
    /\ apc = "stored"
    /\ shape.jlevel = 2
    /\ shape.jparts = {"Year", "Month"}
    /\ efetch_info[S_100][2] = <<>>
    /\ ElectronicDateComplete
    /\ efetch_info[S_100][3] = <<"2", "0", "1", "9", "/", "1", "2", "/", "3", "1">>

\* C7: the MeSH field of a parsed article reads back as its heading groups,
\* UI identifiers separated by ";" and groups by "|", in document order; it is
\* "D001;D002|D003" for the groups [[D001, D002], [D003]]; and without a
\* MeshHeadingList it is empty and the record is still stored.
C7_MeshField ==
    /\ apc \in {"store", "stored"} =>
          /\ ~shape.mesh => parsed.mesh_terms = <<>>
          /\ shape.mesh /\ shape.groups = <<>> => parsed.mesh_terms = <<>>
          /\ shape.mesh /\ shape.groups # <<>> =>
                MeshGroups(parsed.mesh_terms) = shape.groups
          /\ shape.mesh /\ shape.groups = << <<D001, D002>>, <<D003>> >> =>
                parsed.mesh_terms = <<"D", "0", "0", "1", ";", "D", "0", "0", "2", "|", "D", "0", "0", "3">>
    /\ apc = "stored" => efetch_info[S_100][4] = parsed.mesh_terms
    /\ apc = "raised" /\ ~shape.mesh => ~shape.title

C7_Witness ==
    /\ apc = "stored"
    /\ shape.mesh
    /\ shape.groups = << <<D001, D002>>, <<D003>> >>
    /\ efetch_info[S_100][4] = <<"D", "0", "0", "1", ";", "D", "0", "0", "2", "|", "D", "0", "0", "3">>

\* C8: when the configuration file is missing or has no "scopus" key, the run
\* ends with an error at once: no HTTP request has been issued and nothing has
\* been written.
C8_ConfigErrorsFirst ==
    config # "ok" =>
       /\ pc \in {"config", "failed"}
       /\ pc = "failed" => error \in {"FileNotFoundError", "KeyError"}
       /\ http_log = <<>>
       /\ output = <<>>

C8_Witness ==
    /\ pc = "failed"
    /\ config = "no_scopus_key"
    /\ error = "KeyError"
    /\ input_file # <<>>
    /\ http_log = <<>>

\* C9 (as claimed): once a request was answered with a non-2xx status or a
\* malformed body, the run has failed and nothing has been written.
C9_ErrorsFatalNothingWritten ==
    (\E k \in 1..Len(http_log) :
        http_log[k].status \notin 200..299 \/ ~http_log[k].ok)
    => pc = "failed" /\ output = <<>>

\* C10: when the metadata map lacks a loaded identifier, the writer ends with
\* a KeyError at the first such identifier, having written the header row and
\* the rows of the identifiers before it, in input order, and nothing else.
C10_WriterStopsAtFirstMissing ==
    WriterRan =>
       IF MissingMetadata = {}
       THEN pc = "done"
       ELSE /\ pc = "failed"
            /\ error = "KeyError"
            /\ output[1] = header
            /\ Len(output) = Least(MissingMetadata)
            /\ \A i \in 1..(Len(output) - 1) : Fields(output[i + 1])[1] = id_list[i]

C10_Witness ==
    /\ pc = "failed"
    /\ error = "KeyError"
    /\ Len(id_list) = 3
    /\ MissingMetadata = {2}
    /\ Len(output) = 2
    /\ Fields(output[2])[1] = id_list[1]

====
